---- MODULE Spec2Model ----
(***************************************************************************)
(* Model of scripts/incident_response_automation.py: the service health    *)
(* monitor with automated recovery, Slack alerts and the sqlite incident   *)
(* store.  One action per step of main(): start-up, the start of a tick,   *)
(* one iteration of the loop of monitor_services(), the sleep.             *)
(***************************************************************************)
EXTENDS Integers, Sequences, FiniteSets, TLC

\* Number of ticks (calls of monitor_services) explored.
MaxTicks == 2

\* SQL NULL in the integer/datetime columns of the incidents table.
NULL == -1

\* Python's None as a value of service_status.
None == "None"

\* SERVICES_TO_MONITOR, in dict (insertion) order.
SERVICES_TO_MONITOR == <<"nginx", "redis">>

Services == {SERVICES_TO_MONITOR[i] : i \in DOMAIN SERVICES_TO_MONITOR}

\* What subprocess.run can do with a command.
CommandOutcomes == {"exit0", "nonzero", "timeout", "error"}

\* The probe outcomes the ticks explore: exit code 0, a non-zero exit code,
\* the 5 s timeout.
ProbeOutcomes == {"exit0", "nonzero", "timeout"}

\* The notifier calls one loop iteration can make (lines 132 and 139/142).
AlertCalls == 1..2

VARIABLES
  RECOVERY_COMMANDS, \* the services that have a recovery command (configuration)
  service_status,    \* the module-level dict service_status
  incidents,         \* the rows of the incidents table, in insertion order
  pc,                \* where main() is
  tick,              \* number of the tick in flight (calls of monitor_services so far)
  idx,               \* position of the for loop of monitor_services
  last,              \* what the latest loop iteration did
  downAlerted,       \* per service: a 'down' alert went out in the current unhealthy period
  ledger,            \* per incident row: recovery invocations since it was opened
  probed,            \* the services probed so far by the tick in flight, in order
  table_created,     \* the incidents table exists
  openDown,          \* per service: its latest 'down'/'recovered' alert was 'down'
  probe_call         \* a call of check_service_health on its own: the run, the result

\* log_analyzer_slack_alerter.py
VARIABLES
  log_file,          \* the lines of LOG_FILE_PATH as they are now
  last_position,     \* main's local last_position
  error_count,       \* main's local error_count
  lines_read,        \* len(lines) of the latest poll
  analysed,          \* the line numbers analyze_logs has enumerated, in order
  alerted,           \* the calls of send_slack_alert: severity and line number
  grewOnly,          \* between the polls so far the file has only grown
  wholeOnly          \* every poll so far found only complete lines

logVars == <<log_file, last_position, error_count, lines_read, analysed, alerted,
             grewOnly, wholeOnly>>

\* health_check_scheduler.py
VARIABLES
  health_checks,     \* the rows of the health_checks table, in insertion order
  hc_pc,             \* where main() is: "start", "job", "idle", "crashed", "stopped"
  hc_run,            \* runs of health_check_job started so far
  hc_idx,            \* position of the for loop of health_check_job, 0 outside a run
  hc_checks,         \* the calls of get_service_status so far: run, endpoint, status
  hc_writes,         \* the calls of log_health_check so far: run, endpoint
  hc_alerts          \* the calls of send_slack_alert so far: run, endpoint, status

hcVars == <<health_checks, hc_pc, hc_run, hc_idx, hc_checks, hc_writes, hc_alerts>>

vars == <<RECOVERY_COMMANDS, service_status, incidents, pc, tick, idx, last,
          downAlerted, ledger, probed, table_created, openDown, probe_call,
          logVars, hcVars>>

----------------------------------------------------------------------------
\* dict.get(key): None for a missing key.
Get(d, k) == IF k \in DOMAIN d THEN d[k] ELSE None

\* Variant of Put that rebinds the dict to one holding the new entry only.
PutFresh(d, k, v) == [x \in {k} |-> v]

\* d[key] = value: adds the key when it is missing.
Put(d, k, v) == [x \in (DOMAIN d) \cup {k} |-> IF x = k THEN v ELSE d[x]]

\* Number of occurrences of e in the sequence s.
Count(s, e) == Cardinality({i \in DOMAIN s : s[i] = e})

\* check_service_health: (is_healthy, message) for each outcome of the command.
check_service_health(outcome) ==
  CASE outcome = "exit0"   -> [healthy |-> TRUE,  message |-> "OK"]
    [] outcome = "nonzero" -> [healthy |-> FALSE, message |-> "stderr"]
    [] outcome = "timeout" -> [healthy |-> FALSE, message |-> "Health check timeout"]
    [] OTHER               -> [healthy |-> FALSE, message |-> "exception"]

----------------------------------------------------------------------------
(* check_service_health in detail.  A text is given by the number of       *)
(* whitespace characters at its ends (pad) and the length of what strip()  *)
(* leaves (core); a run of the command is its kind (it exited, it timed    *)
(* out, subprocess.run raised something else), the exit code, stderr,      *)
(* stdout and the length of the exception's text.                          *)

\* The slice bound of [:200].
DetailLimit == 200

\* How far beyond the slice bound the texts explored go.
MaxOver == 1

Lengths == {0, 1} \cup ((DetailLimit - 1)..(DetailLimit + MaxOver))

Outputs == [pad : {0, 1}, core : Lengths]

NoOutput == [pad |-> 0, core |-> 0]

ReturnCodes == {0, 1, 2}

Runs ==
  [kind : {"exit"}, returncode : ReturnCodes, stderr : Outputs, stdout : Outputs,
   exc : {0}]
  \cup [kind : {"timeout"}, returncode : {0}, stderr : {NoOutput}, stdout : {NoOutput},
        exc : {0}]
  \cup [kind : {"error"}, returncode : {0}, stderr : {NoOutput}, stdout : {NoOutput},
        exc : Lengths]

\* A str is truthy when it is not empty.
Truthy(text) == text.pad + text.core > 0

\* x[:200] of a text of length n.
Slice(n) == IF n > DetailLimit THEN DetailLimit ELSE n

\* Variant of check_service_health_run that returns the message unsliced.
check_service_health_unsliced(run) ==
  CASE run.kind = "exit" /\ run.returncode = 0 ->
         [healthy |-> TRUE, text |-> "OK", len |-> 2, raised |-> FALSE]
    [] run.kind = "exit" /\ run.returncode # 0 ->
         IF Truthy(run.stderr)
         THEN [healthy |-> FALSE, text |-> "stderr", len |-> run.stderr.core,
               raised |-> FALSE]
         ELSE IF Truthy(run.stdout)
         THEN [healthy |-> FALSE, text |-> "stdout", len |-> run.stdout.core,
               raised |-> FALSE]
         ELSE [healthy |-> FALSE, text |-> "Unknown error", len |-> 13, raised |-> FALSE]
    [] run.kind = "timeout" ->
         [healthy |-> FALSE, text |-> "Health check timeout", len |-> 20, raised |-> FALSE]
    [] OTHER ->
         [healthy |-> FALSE, text |-> "exception", len |-> run.exc, raised |-> FALSE]

\* check_service_health, lines 69-79: the pair returned for a run; text names
\* the literal returned or where the message comes from, len is its length.
check_service_health_run(run) ==
  CASE run.kind = "exit" /\ run.returncode = 0 ->
         [healthy |-> TRUE, text |-> "OK", len |-> 2, raised |-> FALSE]
    [] run.kind = "exit" /\ run.returncode # 0 ->
         IF Truthy(run.stderr)
         THEN [healthy |-> FALSE, text |-> "stderr", len |-> Slice(run.stderr.core),
               raised |-> FALSE]
         ELSE IF Truthy(run.stdout)
         THEN [healthy |-> FALSE, text |-> "stdout", len |-> Slice(run.stdout.core),
               raised |-> FALSE]
         ELSE [healthy |-> FALSE, text |-> "Unknown error", len |-> Slice(13),
               raised |-> FALSE]
    [] run.kind = "timeout" ->
         [healthy |-> FALSE, text |-> "Health check timeout", len |-> 20, raised |-> FALSE]
    [] OTHER ->
         [healthy |-> FALSE, text |-> "exception", len |-> Slice(run.exc), raised |-> FALSE]

\* No call of check_service_health on its own has been made.
NoCall ==
  [made |-> FALSE,
   run |-> [kind |-> "none", returncode |-> 0, stderr |-> NoOutput, stdout |-> NoOutput,
            exc |-> 0],
   result |-> [healthy |-> FALSE, text |-> "none", len |-> 0, raised |-> FALSE]]

----------------------------------------------------------------------------
\* attempt_recovery: True only for exit code 0; every failure is caught.
attempt_recovery(outcome) == outcome = "exit0"

\* The row log_incident inserts: end_time and recovery_attempts are not in
\* the column list, recovery_successful is False.
IncidentRow(store, service_name, incident_type, details, now) ==
  [id |-> Len(store) + 1, service_name |-> service_name,
   incident_type |-> incident_type, start_time |-> now, end_time |-> NULL,
   recovery_attempts |-> NULL, recovery_successful |-> FALSE,
   details |-> details]

\* Variant of log_incident without the try/except: a failed write raises.
log_incident_unguarded(store, service_name, incident_type, details, now, writeOk) ==
  [store  |-> IF writeOk
              THEN Append(store, IncidentRow(store, service_name, incident_type, details, now))
              ELSE store,
   raised |-> ~writeOk]

\* log_incident: the INSERT, inside try/except Exception.
log_incident(store, service_name, incident_type, details, now, writeOk) ==
  [store  |-> IF writeOk
              THEN Append(store, IncidentRow(store, service_name, incident_type, details, now))
              ELSE store,
   raised |-> FALSE]

\* Variant of send_slack_alert without the try/except: a failed POST raises.
send_slack_alert_unguarded(service_name, alert_type, postOk) == [raised |-> ~postOk]

\* send_slack_alert: the POST, inside try/except Exception.
send_slack_alert(service_name, alert_type, postOk) == [raised |-> FALSE]

----------------------------------------------------------------------------
(* The loop body of monitor_services, statement by statement.  A context   *)
(* carries the dict, the table, the calls made so far (events) and whether *)
(* an exception is propagating (raised): a statement after a raise is      *)
(* skipped.  atRecover is the dict as it was when attempt_recovery was     *)
(* last called.                                                            *)

Ctx(status, store) ==
  [status |-> status, store |-> store, events |-> <<>>, alerts |-> 0,
   success |-> FALSE, raised |-> FALSE, atRecover |-> status]

\* is_healthy, message = check_service_health(...)
Probe(c) == [c EXCEPT !.events = Append(@, "probe")]

\* send_slack_alert(service_name, alert_type, ...): the k-th notifier call
\* of the iteration succeeds when notify[k].
Alert(c, service_name, alert_type, notify) ==
  IF c.raised THEN c
  ELSE LET k == c.alerts + 1
           r == send_slack_alert(service_name, alert_type, notify[k])
       IN [c EXCEPT !.events = Append(@, alert_type), !.alerts = k,
                    !.raised = r.raised]

\* Variant of Log that sends an alert of its own when the write failed.
LogAlertsFailure(c, service_name, message, now, writeOk) ==
  IF c.raised THEN c
  ELSE LET r == log_incident(c.store, service_name, "service_failure", message, now, writeOk)
       IN [c EXCEPT !.events = IF writeOk THEN Append(@, "log_incident")
                                ELSE Append(Append(@, "log_incident"), "store_failed"),
                    !.store = r.store,
                    !.raised = r.raised]

\* log_incident(service_name, "service_failure", message)
Log(c, service_name, message, now, writeOk) ==
  IF c.raised THEN c
  ELSE LET r == log_incident(c.store, service_name, "service_failure", message, now, writeOk)
       IN [c EXCEPT !.events = Append(@, "log_incident"), !.store = r.store,
                    !.raised = r.raised]

\* success = attempt_recovery(service_name, recovery_command)
Recover(c, outcome) ==
  IF c.raised THEN c
  ELSE [c EXCEPT !.events = Append(@, "recover"),
                 !.success = attempt_recovery(outcome),
                 !.atRecover = c.status]

\* service_status[service_name] = value
SetStatus(c, service_name, value) ==
  IF c.raised THEN c
  ELSE [c EXCEPT !.status = Put(@, service_name, value)]

\* Variant of HealthyBranch that sets the status without the 'recovered' alert.
HealthyBranchSilent(c, service_name, notify) == SetStatus(c, service_name, "up")

\* Lines 125-128: the probe was healthy.
HealthyBranch(c, service_name, notify) ==
  LET c1 == IF Get(c.status, service_name) = "down"
            THEN Alert(c, service_name, "recovered", notify)
            ELSE c
  IN SetStatus(c1, service_name, "up")

\* Variant of NewDownBranch that writes the incident before it alerts.
NewDownBranchLogFirst(c, service_name, message, now, writeOk, notify) ==
  IF Get(c.status, service_name) # "down"
  THEN Alert(Log(c, service_name, message, now, writeOk), service_name, "down", notify)
  ELSE c

\* Lines 130-133: a failed probe of a service not recorded as down.
NewDownBranch(c, service_name, message, now, writeOk, notify) ==
  IF Get(c.status, service_name) # "down"
  THEN Log(Alert(c, service_name, "down", notify), service_name, message, now, writeOk)
  ELSE c

\* Variant of RecoveryBranch that retries a failed recovery once.
RecoveryBranchRetry(c, recoverable, service_name, recovery, notify) ==
  IF service_name \in recoverable
  THEN LET c1 == Recover(c, recovery)
           c2 == IF c1.success THEN c1 ELSE Recover(c1, recovery)
       IN IF c2.success
          THEN SetStatus(Alert(c2, service_name, "recovered", notify), service_name, "up")
          ELSE SetStatus(Alert(c2, service_name, "recovery_failed", notify), service_name, "down")
  ELSE c

\* Variant of RecoveryBranch in which a failed recovery raises.
RecoveryBranchAbort(c, recoverable, service_name, recovery, notify) ==
  IF service_name \in recoverable
  THEN LET c1 == Recover(c, recovery)
       IN IF c1.success
          THEN SetStatus(Alert(c1, service_name, "recovered", notify), service_name, "up")
          ELSE [c1 EXCEPT !.raised = TRUE]
  ELSE c

\* Variant of RecoveryBranch that leaves the status alone when the
\* recovery failed.
RecoveryBranchKeepsStatus(c, recoverable, service_name, recovery, notify) ==
  IF service_name \in recoverable
  THEN LET c1 == Recover(c, recovery)
       IN IF c1.success
          THEN SetStatus(Alert(c1, service_name, "recovered", notify), service_name, "up")
          ELSE Alert(c1, service_name, "recovery_failed", notify)
  ELSE c

\* Lines 135-143: the recovery attempt and its alert.
RecoveryBranch(c, recoverable, service_name, recovery, notify) ==
  IF service_name \in recoverable
  THEN LET c1 == Recover(c, recovery)
       IN IF c1.success
          THEN SetStatus(Alert(c1, service_name, "recovered", notify), service_name, "up")
          ELSE SetStatus(Alert(c1, service_name, "recovery_failed", notify), service_name, "down")
  ELSE c

\* Lines 122-143: one iteration of the for loop.
LoopBody(status, store, recoverable, service_name, probe, recovery, now, writeOk, notify) ==
  LET h == check_service_health(probe)
      c == Probe(Ctx(status, store))
  IN IF h.healthy
     THEN HealthyBranch(c, service_name, notify)
     ELSE RecoveryBranch(
            NewDownBranch(c, service_name, h.message, now, writeOk, notify),
            recoverable, service_name, recovery, notify)

----------------------------------------------------------------------------
\* Variant of init_database that catches and logs its failure.
init_database_guarded(dbOk) == [created |-> dbOk, raised |-> FALSE]

\* init_database: CREATE TABLE IF NOT EXISTS, with no try/except around it.
init_database(dbOk) == [created |-> dbOk, raised |-> ~dbOk]

\* The record of an iteration that has not happened.
NoIteration ==
  [svc |-> None, tick |-> 0, prev |-> None, healthy |-> FALSE, recovery |-> "none",
   write |-> "none", postFailed |-> FALSE, events |-> <<>>,
   pendingDown |-> FALSE, rows |-> 0, raised |-> FALSE, atRecover |-> "n/a",
   openBefore |-> FALSE]

\* The configurations explored: the shipped one, where every monitored
\* service has a recovery command, and one where the last service has none
\* (monitor_services tests `service_name in RECOVERY_COMMANDS`).
Configurations == {Services, {SERVICES_TO_MONITOR[1]}}

\* The variables of incident_response_automation.py.
monitorVars == <<RECOVERY_COMMANDS, service_status, incidents, pc, tick, idx, last,
                 downAlerted, ledger, probed, table_created, openDown, probe_call>>

-----------------------------------------------------------------------------
(* log_analyzer_slack_alerter.py: main polls LOG_FILE_PATH every           *)
(* CHECK_INTERVAL seconds, reads the whole file and analyses the lines     *)
(* from last_position on.                                                  *)

\* The most lines the log file holds.
MaxLines == 2

\* ERROR_PATTERNS, lines 29-37, in dict order: the first two of the seven
\* patterns.  One line can match several ("FATAL ERROR").
ERROR_PATTERNS == <<"CRITICAL", "ERROR">>

Severities == {ERROR_PATTERNS[i] : i \in DOMAIN ERROR_PATTERNS}

\* A line of the file: the patterns re.search finds in its text, and whether
\* the writer has finished it (it ends with a newline).
LogLines == [matches : SUBSET Severities, complete : BOOLEAN]

\* The contents the file can have: readlines() splits at newlines, so only
\* the last line can be unfinished.
LogFiles ==
  {f \in UNION {[1..n -> LogLines] : n \in 0..MaxLines} :
     \A i \in 1..(Len(f) - 1) : f[i].complete}

\* The file has only grown from old to new: text was appended, so finished
\* lines are as they were and an unfinished last line matches at least the
\* patterns it matched before.
Grown(old, new) ==
  /\ Len(new) >= Len(old)
  /\ \A i \in 1..Len(old) :
       IF old[i].complete THEN new[i] = old[i]
       ELSE old[i].matches \subseteq new[i].matches

\* What a read of the file meets: the file is there and is read, the path
\* does not exist (line 100), open or readlines raises (line 109).
ReadOutcomes == {"ok", "missing", "error"}

\* read_log_file, lines 97-111: the lines of the file, [] when the file is
\* missing or the read raises.
read_log_file(file, outcome) == IF outcome = "ok" THEN file ELSE <<>>

\* analyze_logs without the break of line 126: one error per matching pattern.
ScanLineNoBreak(line, line_num) ==
  LET hits == SelectSeq(ERROR_PATTERNS, LAMBDA p : p \in line.matches)
  IN [k \in DOMAIN hits |-> [severity |-> hits[k], line_num |-> line_num]]

\* analyze_logs, lines 118-126: the inner loop over ERROR_PATTERNS appends
\* one error for the first pattern that matches, then breaks.
ScanLine(line, line_num) ==
  LET hits == SelectSeq(ERROR_PATTERNS, LAMBDA p : p \in line.matches)
  IN IF hits = <<>> THEN <<>>
     ELSE <<[severity |-> hits[1], line_num |-> line_num]>>

\* analyze_logs, lines 113-128: enumerate(lines[last_position:],
\* start=last_position); line_num is 0-based.
RECURSIVE analyze_logs(_, _)
analyze_logs(lines, position) ==
  IF position >= Len(lines) THEN <<>>
  ELSE ScanLine(lines[position + 1], position) \o analyze_logs(lines, position + 1)

\* The line numbers that loop enumerates.
Enumerated(lines, position) ==
  [k \in 1..(Len(lines) - position) |-> position + k - 1]

\* main, lines 141-142, before the first poll.
LogInit ==
  /\ log_file = <<>>
  /\ last_position = 0
  /\ error_count = 0
  /\ lines_read = 0
  /\ analysed = <<>>
  /\ alerted = <<>>
  /\ grewOnly = TRUE
  /\ wholeOnly = TRUE

\* main, lines 146-166: one pass of the while loop, on the file as it is at
\* the read.  send_slack_alert (lines 57-95) catches what it raises, so each
\* error is one call whatever the webhook answers.
Poll ==
  /\ \E file \in LogFiles, outcome \in ReadOutcomes :
       LET lines == read_log_file(file, outcome)
           new_errors == analyze_logs(lines, last_position)
       IN /\ outcome = "missing" => file = <<>>
          /\ log_file' = file
          /\ lines_read' = Len(lines)
          /\ IF Len(lines) > last_position
             THEN /\ analysed' = analysed \o Enumerated(lines, last_position)
                  /\ error_count' = error_count + Len(new_errors)
                  /\ alerted' = alerted \o new_errors
                  /\ last_position' = Len(lines)
             ELSE UNCHANGED <<analysed, error_count, alerted, last_position>>
          /\ grewOnly' = (grewOnly /\ outcome # "missing" /\ Grown(log_file, file))
          /\ wholeOnly' = (wholeOnly /\ \A i \in DOMAIN file : file[i].complete)
  /\ UNCHANGED <<monitorVars, hcVars>>

-----------------------------------------------------------------------------
(* health_check_scheduler.py: main runs health_check_job once at start and *)
(* then every CHECK_INTERVAL minutes; a run checks every endpoint in turn. *)

\* The most runs of health_check_job.
MaxRuns == 2

\* HEALTH_CHECK_ENDPOINTS, lines 10-15, in dict order: the first two of the
\* four endpoints.
HEALTH_CHECK_ENDPOINTS == <<"API", "Database">>

\* TIMEOUT, line 19, in seconds.
TIMEOUT == 5

\* What requests.get meets at line 55: status code 200, another status code,
\* requests.exceptions.Timeout, requests.exceptions.ConnectionError, any
\* other Exception.
Responses == {"200", "500", "timeout", "refused", "error"}

\* The time line 56 measures for a response that arrives, in whole ms.
ElapsedMs == 120

\* get_service_status, lines 52-67.
get_service_status(response) ==
  CASE response = "200" ->
         [status |-> "UP", response_time |-> ElapsedMs, error |-> None]
    [] response = "500" ->
         [status |-> "DOWN", response_time |-> ElapsedMs, error |-> "HTTP 500"]
    [] response = "timeout" ->
         [status |-> "DOWN", response_time |-> TIMEOUT * 1000, error |-> "Timeout"]
    [] response = "refused" ->
         [status |-> "DOWN", response_time |-> 0, error |-> "Connection refused"]
    [] OTHER ->
         [status |-> "DOWN", response_time |-> 0, error |-> "error"]

\* log_health_check, lines 38-50: one INSERT; whatever it raises is caught
\* and printed.
log_health_check(table, service_name, status, response_time_ms, error_message, writeOk) ==
  IF writeOk
  THEN Append(table, [service_name |-> service_name, status |-> status,
                      response_time_ms |-> response_time_ms,
                      error_message |-> error_message])
  ELSE table

\* health_check_job alerting for every status instead of testing line 93.
health_check_job_alert_always(table, run, service_name, response, writeOk) ==
  LET check == get_service_status(response)
  IN [table |-> log_health_check(table, service_name, check.status,
                                 check.response_time, check.error, writeOk),
      checks |-> <<[run |-> run, svc |-> service_name, status |-> check.status]>>,
      writes |-> <<[run |-> run, svc |-> service_name]>>,
      alerts |-> <<[run |-> run, svc |-> service_name, status |-> check.status]>>]

\* health_check_job, lines 89-94: the body of the for loop for one endpoint.
\* send_slack_alert (lines 69-84) catches what it raises, so an alert is one
\* call whatever the webhook answers.
health_check_job(table, run, service_name, response, writeOk) ==
  LET check == get_service_status(response)
  IN [table |-> log_health_check(table, service_name, check.status,
                                 check.response_time, check.error, writeOk),
      checks |-> <<[run |-> run, svc |-> service_name, status |-> check.status]>>,
      writes |-> <<[run |-> run, svc |-> service_name]>>,
      alerts |-> IF check.status = "DOWN"
                 THEN <<[run |-> run, svc |-> service_name, status |-> "DOWN"]>>
                 ELSE <<>>]

\* Nothing has run.
HcInit ==
  /\ health_checks = <<>>
  /\ hc_pc = "start"
  /\ hc_run = 0
  /\ hc_idx = 0
  /\ hc_checks = <<>>
  /\ hc_writes = <<>>
  /\ hc_alerts = <<>>

\* main, lines 100-102: init_database() is not guarded, so a database error
\* ends the process; otherwise the job is scheduled and its first run starts
\* at once.
HcStartup ==
  /\ hc_pc = "start"
  /\ \E dbOk \in BOOLEAN :
       IF dbOk THEN hc_pc' = "job" /\ hc_run' = 1 /\ hc_idx' = 1
       ELSE hc_pc' = "crashed" /\ UNCHANGED <<hc_run, hc_idx>>
  /\ UNCHANGED <<health_checks, hc_checks, hc_writes, hc_alerts, monitorVars, logVars>>

\* main, line 106: schedule.run_pending() finds the job due and calls it.
JobBegin ==
  /\ hc_pc = "idle"
  /\ hc_run < MaxRuns
  /\ hc_pc' = "job"
  /\ hc_run' = hc_run + 1
  /\ hc_idx' = 1
  /\ UNCHANGED <<health_checks, hc_checks, hc_writes, hc_alerts, monitorVars, logVars>>

\* health_check_job, lines 88-94: one iteration of the for loop; after the
\* last endpoint the run returns to main's loop.
HealthCheck ==
  /\ hc_pc = "job"
  /\ \E response \in Responses, writeOk \in BOOLEAN :
       LET r == health_check_job(health_checks, hc_run, HEALTH_CHECK_ENDPOINTS[hc_idx],
                                 response, writeOk)
       IN /\ health_checks' = r.table
          /\ hc_checks' = hc_checks \o r.checks
          /\ hc_writes' = hc_writes \o r.writes
          /\ hc_alerts' = hc_alerts \o r.alerts
  /\ IF hc_idx < Len(HEALTH_CHECK_ENDPOINTS)
     THEN hc_idx' = hc_idx + 1 /\ hc_pc' = "job"
     ELSE hc_idx' = 0 /\ hc_pc' = "idle"
  /\ UNCHANGED <<hc_run, monitorVars, logVars>>

\* main, lines 104-109: KeyboardInterrupt.  It is no Exception, so the
\* `except Exception` clauses of the calls do not catch it: it arrives in
\* time.sleep, or in a run while requests.get of the endpoint at hc_idx
\* blocks, and the process stops with nothing of that iteration done.
HcInterrupt ==
  /\ hc_pc \in {"idle", "job"}
  /\ hc_pc' = "stopped"
  /\ UNCHANGED <<health_checks, hc_run, hc_idx, hc_checks, hc_writes, hc_alerts,
                 monitorVars, logVars>>

HcNext == HcStartup \/ JobBegin \/ HealthCheck \/ HcInterrupt

\* Module level: service_status = {}; nothing has run.
Init ==
  /\ RECOVERY_COMMANDS \in Configurations
  /\ service_status = [x \in {} |-> None]
  /\ incidents = <<>>
  /\ pc = "start"
  /\ tick = 0
  /\ idx = 0
  /\ last = NoIteration
  /\ downAlerted = [s \in Services |-> FALSE]
  /\ ledger = <<>>
  /\ probed = <<>>
  /\ table_created = FALSE
  /\ openDown = [s \in Services |-> FALSE]
  /\ probe_call = NoCall
  /\ LogInit
  /\ HcInit

\* main, lines 149-151: init_database(), then every status is None.
Startup ==
  /\ pc = "start"
  /\ \E dbOk \in BOOLEAN :
       /\ table_created' = init_database(dbOk).created
       /\ IF init_database(dbOk).raised
          THEN /\ pc' = "init_raised"
               /\ UNCHANGED service_status
          ELSE /\ pc' = "loop"
               /\ service_status' = [s \in Services |-> None]
  /\ UNCHANGED <<RECOVERY_COMMANDS, incidents, tick, idx, last, downAlerted, ledger,
                 probed, openDown, probe_call,
                 logVars, hcVars>>

\* main, lines 154-155: the next call of monitor_services starts its loop.
TickBegin ==
  /\ pc = "loop"
  /\ tick < MaxTicks
  /\ pc' = "tick"
  /\ tick' = tick + 1
  /\ idx' = 1
  /\ probed' = <<>>
  /\ UNCHANGED <<RECOVERY_COMMANDS, service_status, incidents, last, downAlerted, ledger,
                 table_created, openDown, probe_call,
                 logVars, hcVars>>

\* The bookkeeping of recovery invocations per incident row, for service s:
\* a new row starts at 0, every row of s whose down period is running counts
\* the invocation, and the rows of s are closed when the period ends.
NextLedger(store, s, opened, invoked, periodEnds) ==
  LET l1 == IF opened THEN Append(ledger, [invocations |-> 0, closed |-> FALSE])
            ELSE ledger
  IN [i \in DOMAIN l1 |->
        IF store[i].service_name = s /\ ~l1[i].closed
        THEN [invocations |-> l1[i].invocations + (IF invoked THEN 1 ELSE 0),
              closed |-> periodEnds]
        ELSE l1[i]]

\* Whether the latest 'down'/'recovered' alert of a service is 'down', after
\* the calls of an iteration (open: whether it was before).
RECURSIVE NextOpenDown(_, _)
NextOpenDown(open, events) ==
  IF events = <<>> THEN open
  ELSE NextOpenDown(CASE Head(events) = "down"      -> TRUE
                      [] Head(events) = "recovered" -> FALSE
                      [] OTHER                      -> open,
                    Tail(events))

\* monitor_services, lines 121-143: one iteration of the loop, for the
\* service at position idx.  An exception that leaves the loop body leaves
\* monitor_services and main (main catches KeyboardInterrupt only).
MonitorService ==
  /\ pc = "tick"
  /\ idx \in DOMAIN SERVICES_TO_MONITOR
  /\ \E probe \in ProbeOutcomes, recovery \in CommandOutcomes,
        writeOk \in BOOLEAN, notify \in [AlertCalls -> BOOLEAN] :
       LET s == SERVICES_TO_MONITOR[idx]
           r == LoopBody(service_status, incidents, RECOVERY_COMMANDS, s,
                         probe, recovery, tick, writeOk, notify)
           healthy == check_service_health(probe).healthy
           invoked == Count(r.events, "recover") > 0
           logged == Count(r.events, "log_incident") > 0
           periodEnds == healthy \/ r.success
       IN /\ service_status' = r.status
          /\ incidents' = r.store
          /\ last' = [svc |-> s, tick |-> tick, prev |-> Get(service_status, s), healthy |-> healthy,
                      recovery |-> IF s \notin RECOVERY_COMMANDS THEN "none"
                                   ELSE IF attempt_recovery(recovery) THEN "ok"
                                   ELSE "failed",
                      write |-> IF ~logged THEN "none"
                                ELSE IF writeOk THEN "ok" ELSE "failed",
                      postFailed |-> \E k \in AlertCalls : k <= r.alerts /\ ~notify[k],
                      events |-> r.events,
                      pendingDown |-> downAlerted[s],
                      rows |-> Len(incidents),
                      raised |-> r.raised,
                      atRecover |-> IF invoked THEN Get(r.atRecover, s) ELSE "n/a",
                      openBefore |-> openDown[s]]
          /\ openDown' = [openDown EXCEPT ![s] = NextOpenDown(@, r.events)]
          /\ downAlerted' = [downAlerted EXCEPT ![s] =
                               ~periodEnds /\ (@ \/ Count(r.events, "down") > 0)]
          /\ ledger' = NextLedger(r.store, s, Len(r.store) > Len(incidents),
                                  invoked, periodEnds)
          /\ probed' = probed \o [i \in 1..Count(r.events, "probe") |-> s]
          /\ IF r.raised
             THEN pc' = "tick_raised" /\ idx' = idx
             ELSE pc' = "tick" /\ idx' = idx + 1
  /\ UNCHANGED <<RECOVERY_COMMANDS, tick, table_created, probe_call,
                 logVars, hcVars>>

\* main, line 156: monitor_services returned; time.sleep(CHECK_INTERVAL).
Sleep ==
  /\ pc = "tick"
  /\ idx \notin DOMAIN SERVICES_TO_MONITOR
  /\ pc' = "loop"
  /\ UNCHANGED <<RECOVERY_COMMANDS, service_status, incidents, tick, idx, last,
                 downAlerted, ledger, probed, table_created, openDown, probe_call,
                 logVars, hcVars>>

\* main, lines 153-158: KeyboardInterrupt.  It is no Exception, so none of
\* the `except Exception` clauses of the calls catches it: it leaves
\* monitor_services at the call that was blocking and reaches line 157.
\* The signal arrives during time.sleep (pc = "loop"), or in a tick while
\* the probe of the service at idx blocks in subprocess.run, or after the
\* last iteration; nothing of the interrupted iteration has been done.
Interrupt ==
  /\ pc \in {"loop", "tick"}
  /\ pc' = "stopped"
  /\ UNCHANGED <<RECOVERY_COMMANDS, service_status, incidents, tick, idx, last,
                 downAlerted, ledger, probed, table_created, openDown, probe_call,
                 logVars, hcVars>>

Next == Startup \/ TickBegin \/ MonitorService \/ Sleep \/ Interrupt

Spec == Init /\ [][Next]_vars

\* check_service_health called on a run of the check command.
ProbeCall ==
  /\ pc = "start"
  /\ \E run \in Runs :
       probe_call' = [made |-> TRUE, run |-> run,
                      result |-> check_service_health_run(run)]
  /\ UNCHANGED <<RECOVERY_COMMANDS, service_status, incidents, pc, tick, idx, last,
                 downAlerted, ledger, probed, table_created, openDown,
                 logVars, hcVars>>

\* The probe executor alone, on every run explored.
ProbeSpec == Init /\ [][ProbeCall]_vars

\* The log analyzer alone.
LogSpec == Init /\ [][Poll]_vars

\* The health check scheduler alone.
HcSpec == Init /\ [][HcNext]_vars

----------------------------------------------------------------------------
(* Properties.  `last` describes the latest loop iteration: the service,   *)
(* its status before (prev), whether the probe was healthy, what the       *)
(* recovery command of the service does in this tick (none when it has no  *)
(* command), whether log_incident was called and wrote, whether a notifier *)
(* call failed, and the calls made, in order (events).                     *)

Iterated == last.svc \in Services

\* A step of MonitorService is about to be taken from this state.
AtIteration == pc = "tick" /\ idx \in DOMAIN SERVICES_TO_MONITOR

\* The step is a loop iteration: it starts in the loop and makes a probe
\* (the other step possible there is the cancellation signal).
IterationStep == AtIteration /\ Len(probed') > Len(probed)

\* C1: at most one 'down' alert per continuous unhealthy period: once a
\* 'down' alert went out for a service, no tick emits another one for it
\* until a tick whose probe is healthy or whose recovery succeeds.
C1_OneDownAlertPerUnhealthyPeriod ==
  Iterated =>
    /\ Count(last.events, "down") <= 1
    /\ (last.pendingDown /\ ~last.healthy /\ last.recovery # "ok")
         => Count(last.events, "down") = 0

\* C2: a service with no recovery command is Down at the end of every tick
\* whose probe failed, the recovery executor is not invoked for it and no
\* 'recovered' alert goes out in such a tick.
C2_NoRecoveryCommandStaysDown ==
  (Iterated /\ last.svc \notin RECOVERY_COMMANDS /\ ~last.healthy) =>
    /\ service_status[last.svc] = "down"
    /\ Count(last.events, "recover") = 0
    /\ Count(last.events, "recovered") = 0

\* C3: every change of a service's status from down to up happens in an
\* iteration for that service which emits exactly one 'recovered' alert.
C3_DownToUpEmitsOneRecovered ==
  [][\A s \in Services :
       (Get(service_status, s) = "down" /\ Get(service_status', s) = "up")
         => /\ AtIteration
            /\ last'.svc = s
            /\ Count(last'.events, "recovered") = 1]_vars

\* C3 witness: a recorded-down service is up again through a recovery action.
C3_Witness ==
  /\ Iterated
  /\ last.prev = "down"
  /\ last.recovery = "ok"
  /\ service_status[last.svc] = "up"

\* C4: when a service goes from down to up, the incidents opened for it are
\* closed in that tick: end time set, recovery outcome true.
C4_IncidentClosedOnRecovery ==
  (Iterated /\ last.prev = "down" /\ service_status[last.svc] = "up") =>
    \A i \in DOMAIN incidents :
      incidents[i].service_name = last.svc =>
        /\ incidents[i].end_time # NULL
        /\ incidents[i].recovery_successful

\* C5: each service has at most one open incident (end time not set).
C5_AtMostOneOpenIncident ==
  \A s \in Services :
    Cardinality({i \in DOMAIN incidents :
                   incidents[i].service_name = s /\ incidents[i].end_time = NULL}) <= 1

\* C6: once the down period of an incident is over, the attempt count of
\* its row equals the number of recovery invocations made for the service
\* since the row was opened.
C6_AttemptCountMatchesInvocations ==
  \A i \in DOMAIN incidents :
    ledger[i].closed => incidents[i].recovery_attempts = ledger[i].invocations

\* C7: in an iteration the recovery action is invoked exactly once when the
\* probe is unhealthy and the service has a recovery command, and not at all
\* otherwise.
C7_RecoveryInvokedOncePerUnhealthyTick ==
  Iterated =>
    Count(last.events, "recover") =
      (IF ~last.healthy /\ last.svc \in RECOVERY_COMMANDS THEN 1 ELSE 0)

\* C7 witness: a failed probe of a service with a command, recovery failing.
C7_Witness ==
  /\ Iterated
  /\ ~last.healthy
  /\ last.recovery = "failed"
  /\ Count(last.events, "recover") = 1

\* C8: a failed probe of a service recorded as None or up, with a recovery
\* that succeeds: one probe, the 'down' alert, one log_incident (one row
\* when the write succeeds), one recovery, the 'recovered' alert, in this
\* order, and the status is up at the end of the iteration.
C8_NewDownRecoveredInOneTick ==
  (Iterated /\ last.prev \in {None, "up"} /\ ~last.healthy /\ last.recovery = "ok") =>
    /\ last.events = <<"probe", "down", "log_incident", "recover", "recovered">>
    /\ service_status[last.svc] = "up"
    /\ Len(incidents) = last.rows + (IF last.write = "ok" THEN 1 ELSE 0)
    /\ last.write = "ok" =>
         /\ incidents[Len(incidents)].service_name = last.svc
         /\ incidents[Len(incidents)].start_time = last.tick

\* C8 witness: the scenario from status None, with the row written.
C8_Witness ==
  /\ Iterated
  /\ last.prev = None
  /\ ~last.healthy
  /\ last.recovery = "ok"
  /\ last.write = "ok"
  /\ service_status[last.svc] = "up"

\* The all-succeed notifier outcomes.
PostsOk == [k \in AlertCalls |-> TRUE]

\* The loop body on the state before the step, for the probe, the recovery
\* outcome and the write outcome the step had, with every notifier call
\* succeeding and the store write as given.
Replay(probe, writeOk) ==
  LoopBody(service_status, incidents, RECOVERY_COMMANDS, last'.svc, probe,
           IF last'.recovery = "ok" THEN "exit0" ELSE "nonzero",
           tick, writeOk, PostsOk)

\* C9: an iteration whose log_incident write fails raises nothing, makes the
\* same calls and leaves the same statuses as with the write succeeding (no
\* row is added), and the loop goes on to the next service.
C9_StoreWriteFailureIsSoft ==
  [][(IterationStep /\ last'.write = "failed") =>
       /\ ~last'.raised
       /\ pc' = "tick" /\ idx' = idx + 1
       /\ incidents' = incidents
       /\ service_status' = Replay("nonzero", TRUE).status
       /\ last'.events = Replay("nonzero", TRUE).events]_vars

\* C9 witness: the write failed for the first service, the recovery ran and
\* the tick is at the second service.
C9_Witness ==
  /\ last.svc = SERVICES_TO_MONITOR[1]
  /\ last.write = "failed"
  /\ Count(last.events, "recover") = 1
  /\ pc = "tick"
  /\ idx = 2

\* C10: an iteration in which a notifier call fails raises nothing and ends
\* with the statuses, the incident rows and the calls (recovery invocations
\* included) it has when every notifier call succeeds, and the loop goes on.
C10_NotifierFailureIsSoft ==
  [][(IterationStep /\ last'.postFailed) =>
       /\ ~last'.raised
       /\ pc' = "tick" /\ idx' = idx + 1
       /\ \E probe \in ProbeOutcomes :
            LET r == Replay(probe, last'.write # "failed")
            IN /\ check_service_health(probe).healthy = last'.healthy
               /\ service_status' = r.status
               /\ incidents' = r.store
               /\ last'.events = r.events]_vars

\* C10 witness: a notifier call failed in the iteration that emitted the
\* 'down' alert, and the service is recorded down.
C10_Witness ==
  /\ Iterated
  /\ last.postFailed
  /\ Count(last.events, "down") = 1
  /\ service_status[last.svc] = "down"

\* C11: a tick probes every configured service exactly once, in
\* configuration order: while it runs, the services probed are those before
\* idx; when it has returned, all of them; and no exception leaves a tick,
\* whatever the probes, recoveries, store writes and notifier calls did.
C11_EveryServiceProbedOncePerTick ==
  /\ pc # "tick_raised"
  /\ pc = "tick" => probed = SubSeq(SERVICES_TO_MONITOR, 1, idx - 1)
  /\ (pc = "loop" /\ tick > 0) => probed = SERVICES_TO_MONITOR

\* C11 witness: a tick has returned after the first service was left down
\* by a failed recovery and the last service had a failed probe, a failed
\* store write, a failed notifier call and a failed recovery.
C11_Witness ==
  /\ pc = "loop"
  /\ probed = SERVICES_TO_MONITOR
  /\ service_status[SERVICES_TO_MONITOR[1]] = "down"
  /\ last.svc = SERVICES_TO_MONITOR[Len(SERVICES_TO_MONITOR)]
  /\ ~last.healthy
  /\ last.write = "failed"
  /\ last.postFailed
  /\ last.recovery = "failed"

\* C13: when the cancellation signal has stopped the loop, the tick that was
\* in flight has been completed for every service.
C13_InterruptCompletesTick ==
  (pc = "stopped" /\ tick > 0) => probed = SERVICES_TO_MONITOR

\* C12: once a service has been probed (in the running first tick, or in a
\* completed earlier tick) its status is up or down, never None.
C12_UnknownOnlyBeforeFirstProbe ==
  \A i \in DOMAIN SERVICES_TO_MONITOR :
    (tick > 1 \/ (tick = 1 /\ i <= Len(probed)))
      => Get(service_status, SERVICES_TO_MONITOR[i]) \in {"up", "down"}

\* The calls of an iteration that are not notifier calls.
NonAlertCalls == {"probe", "log_incident", "recover"}

\* The alert types handed to the notifier in an iteration, in order.
AlertsOf(events) == SelectSeq(events, LAMBDA e : e \notin NonAlertCalls)

\* The alerts the transitions of an iteration call for: they depend on the
\* status before, the probe and the recovery only.
TransitionAlerts ==
  IF last.healthy
  THEN IF last.prev = "down" THEN <<"recovered">> ELSE <<>>
  ELSE (IF last.prev # "down" THEN <<"down">> ELSE <<>>)
       \o (CASE last.recovery = "ok"     -> <<"recovered">>
             [] last.recovery = "failed" -> <<"recovery_failed">>
             [] OTHER                    -> <<>>)

\* C14: every alert handed to the notifier is 'down', 'recovered' or
\* 'recovery_failed', and the alerts of an iteration are those of its
\* transitions whether or not the store write or a notifier call failed.
C14_AlertsOnlyForTransitions ==
  Iterated =>
    /\ \A k \in DOMAIN AlertsOf(last.events) :
         AlertsOf(last.events)[k] \in {"down", "recovered", "recovery_failed"}
    /\ AlertsOf(last.events) = TransitionAlerts

\* C14 witness: the store write and a notifier call failed in an iteration
\* that sent the 'down' and the 'recovery_failed' alert, and nothing else.
C14_Witness ==
  /\ Iterated
  /\ last.write = "failed"
  /\ last.postFailed
  /\ AlertsOf(last.events) = <<"down", "recovery_failed">>

\* C15: at every invocation of the recovery executor the recorded status of
\* the service is down.
C15_RecoveryOnlyWhileDown ==
  (Iterated /\ Count(last.events, "recover") > 0) => last.atRecover = "down"

\* C16: an iteration with an unhealthy probe and a failing recovery action
\* emits exactly one 'recovery_failed' alert and no 'recovered' alert, and
\* leaves the service down.
C16_FailedRecoveryLeavesDown ==
  (Iterated /\ ~last.healthy /\ last.recovery = "failed") =>
    /\ Count(last.events, "recovery_failed") = 1
    /\ Count(last.events, "recovered") = 0
    /\ service_status[last.svc] = "down"

\* C16 witness: a service recorded as up goes down with a failed recovery.
C16_Witness ==
  /\ Iterated
  /\ last.prev = "up"
  /\ ~last.healthy
  /\ last.recovery = "failed"
  /\ Count(last.events, "recovery_failed") = 1
  /\ service_status[last.svc] = "down"

\* C17: no tick starts before the incidents table exists, and when
\* init_database failed the process has stopped at start-up: no tick, no
\* probe, no incident row, no iteration.
C17_SchemaBeforeFirstTick ==
  /\ tick > 0 => table_created
  /\ pc \in {"loop", "tick", "stopped"} => table_created
  /\ pc = "init_raised" =>
       /\ ~table_created
       /\ tick = 0
       /\ probed = <<>>
       /\ incidents = <<>>
       /\ last = NoIteration

\* C17 witness: init_database failed and main has ended there.
C17_Witness == pc = "init_raised" /\ ~table_created /\ tick = 0

\* Whether a sequence of alerts keeps 'down' and 'recovered' alternating,
\* given whether the latest of them before was 'down'.
RECURSIVE Alternates(_, _)
Alternates(open, alerts) ==
  IF alerts = <<>> THEN TRUE
  ELSE CASE Head(alerts) = "down"      -> ~open /\ Alternates(TRUE, Tail(alerts))
         [] Head(alerts) = "recovered" -> open /\ Alternates(FALSE, Tail(alerts))
         [] OTHER                      -> Alternates(open, Tail(alerts))

\* C19: the 'down' and 'recovered' alerts of a service alternate, starting
\* with 'down'.
C19_DownRecoveredAlternate ==
  Iterated => Alternates(last.openBefore, AlertsOf(last.events))

\* C20: a loop iteration changes at most the entry of its own service in
\* service_status, and no step after start-up adds or removes a key: the
\* keys stay those set at start-up, the monitored services.
C20_IterationTouchesOwnEntryOnly ==
  [][/\ IterationStep =>
          \A s \in Services \ {SERVICES_TO_MONITOR[idx]} :
            /\ s \in DOMAIN service_status'
            /\ service_status'[s] = service_status[s]
     /\ pc # "start" =>
          /\ DOMAIN service_status' = DOMAIN service_status
          /\ DOMAIN service_status' = Services]_vars

\* C20 witness: the iteration of the last service changed its status while
\* the first service stays recorded as down.
C20_Witness ==
  /\ Iterated
  /\ last.svc = SERVICES_TO_MONITOR[Len(SERVICES_TO_MONITOR)]
  /\ service_status[last.svc] # last.prev
  /\ service_status[SERVICES_TO_MONITOR[1]] = "down"

\* C18 as stated: check_service_health never raises; healthy exactly when
\* the command exited with code 0; the detail is at most 200 characters
\* long; on timeout the pair is (false, "timeout").
C18_ProbeReturnsTimeoutLiteral ==
  probe_call.made =>
    /\ ~probe_call.result.raised
    /\ probe_call.result.healthy
         <=> (probe_call.run.kind = "exit" /\ probe_call.run.returncode = 0)
    /\ probe_call.result.len <= DetailLimit
    /\ probe_call.run.kind = "timeout" =>
         /\ ~probe_call.result.healthy
         /\ probe_call.result.text = "timeout"

\* C18 amended: as above, with the pair (false, "Health check timeout") on
\* timeout.
C18_ProbeNeverRaises ==
  probe_call.made =>
    /\ ~probe_call.result.raised
    /\ probe_call.result.healthy
         <=> (probe_call.run.kind = "exit" /\ probe_call.run.returncode = 0)
    /\ probe_call.result.len <= DetailLimit
    /\ probe_call.run.kind = "timeout" =>
         /\ ~probe_call.result.healthy
         /\ probe_call.result.text = "Health check timeout"

\* C18 witness: a non-zero exit whose stderr is longer than the slice bound
\* came back cut to the bound.
C18_Witness ==
  /\ probe_call.made
  /\ probe_call.run.kind = "exit"
  /\ probe_call.run.returncode # 0
  /\ probe_call.run.stderr.core > DetailLimit
  /\ probe_call.result.len = DetailLimit
  /\ ~probe_call.result.healthy

-----------------------------------------------------------------------------
(* The log analyzer.                                                       *)

\* The calls of send_slack_alert for line number n.
AlertsAt(n) == {k \in DOMAIN alerted : alerted[k].line_num = n}

\* Every line below last_position has been analysed exactly once, and the
\* lines were taken in line order.
EachLineOnceInOrder == analysed = [i \in 1..last_position |-> i - 1]

\* A line that matches a pattern has exactly one alert, a line that matches
\* none has no alert, and the alerts are in line order.
OneAlertPerMatchingLine ==
  /\ last_position <= Len(log_file)
  /\ \A i \in 1..last_position :
       Cardinality(AlertsAt(i - 1)) = IF log_file[i].matches # {} THEN 1 ELSE 0
  /\ \A j, k \in DOMAIN alerted : j < k => alerted[j].line_num < alerted[k].line_num
  /\ error_count = Len(alerted)

\* A read that returned the whole file leaves no line unanalysed.
NoLineSkipped == lines_read = Len(log_file) => last_position = Len(log_file)

\* C21 as stated: last_position never decreases; while the file has only
\* grown every line is analysed exactly once and in order, with exactly one
\* alert per matching line; and after every poll last_position equals the
\* number of lines that poll read.
C21_PositionEqualsLinesRead ==
  [][/\ last_position' >= last_position
     /\ grewOnly' => (EachLineOnceInOrder /\ OneAlertPerMatchingLine /\ NoLineSkipped)'
     /\ last_position' = lines_read']_vars

\* C21, amended: last_position never decreases; while the file has only
\* grown, and by whole lines, every line read is analysed exactly once and in
\* order, with exactly one alert per matching line and none skipped; after
\* every poll last_position is the larger of its previous value and the
\* number of lines that poll read.
C21_PositionIsMostLinesRead ==
  [][/\ last_position' >= last_position
     /\ (grewOnly' /\ wholeOnly') =>
          (EachLineOnceInOrder /\ OneAlertPerMatchingLine /\ NoLineSkipped)'
     /\ last_position' = IF lines_read' > last_position THEN lines_read'
                         ELSE last_position]_vars

\* The file grew by whole lines to MaxLines lines, a line that matches both
\* patterns was alerted, and the latest poll read nothing.
C21_Witness ==
  /\ grewOnly /\ wholeOnly
  /\ last_position = MaxLines
  /\ Len(log_file) = MaxLines
  /\ lines_read = 0
  /\ \E i \in 1..MaxLines :
       /\ log_file[i].matches = Severities
       /\ Cardinality(AlertsAt(i - 1)) = 1

-----------------------------------------------------------------------------
(* The health check scheduler.                                             *)

\* The calls recorded in log for endpoint e in run r.
CallsOf(log, r, e) == {k \in DOMAIN log : log[k].run = r /\ log[k].svc = e}

\* Run r checked endpoint e and found it DOWN.
DownIn(r, e) == \E k \in CallsOf(hc_checks, r, e) : hc_checks[k].status = "DOWN"

\* Run r has finished the loop iteration of the i-th endpoint.
Handled(r, i) == r < hc_run \/ hc_idx = 0 \/ i < hc_idx

\* C22: every run of health_check_job checks each configured endpoint once
\* and attempts exactly one health_checks write for it; it sends an alert for
\* the endpoint exactly when that check is DOWN; every alert says DOWN, so
\* none announces a return to UP; and an endpoint DOWN in n consecutive runs
\* has n alerts over those runs.
C22_OneWriteAndAlertIffDown ==
  /\ \A r \in 1..hc_run, i \in DOMAIN HEALTH_CHECK_ENDPOINTS :
       LET e == HEALTH_CHECK_ENDPOINTS[i]
       IN /\ Cardinality(CallsOf(hc_checks, r, e)) = IF Handled(r, i) THEN 1 ELSE 0
          /\ Cardinality(CallsOf(hc_writes, r, e)) = IF Handled(r, i) THEN 1 ELSE 0
          /\ Cardinality(CallsOf(hc_alerts, r, e)) = IF DownIn(r, e) THEN 1 ELSE 0
  /\ \A k \in DOMAIN hc_alerts : hc_alerts[k].status = "DOWN"
  /\ Len(hc_writes) = Len(hc_checks)
  /\ Len(health_checks) <= Len(hc_writes)
  /\ \A i \in DOMAIN HEALTH_CHECK_ENDPOINTS, a \in 1..hc_run, b \in 1..hc_run :
       LET e == HEALTH_CHECK_ENDPOINTS[i]
       IN (a <= b /\ \A r \in a..b : DownIn(r, e)) =>
            Cardinality({k \in DOMAIN hc_alerts :
                           hc_alerts[k].svc = e /\ hc_alerts[k].run \in a..b}) = b - a + 1

\* C22 witness: MaxRuns runs have returned; the first endpoint was DOWN in
\* every one of them, the last endpoint was DOWN in the first run and UP in
\* the last, and a health_checks write failed.
C22_Witness ==
  /\ hc_pc = "idle"
  /\ hc_run = MaxRuns
  /\ \A r \in 1..MaxRuns : DownIn(r, HEALTH_CHECK_ENDPOINTS[1])
  /\ DownIn(1, HEALTH_CHECK_ENDPOINTS[Len(HEALTH_CHECK_ENDPOINTS)])
  /\ ~DownIn(MaxRuns, HEALTH_CHECK_ENDPOINTS[Len(HEALTH_CHECK_ENDPOINTS)])
  /\ Len(health_checks) < Len(hc_writes)

====
